---- MODULE Spec2Model ----
(***************************************************************************)
(* Token lifecycle of the Netatmo Energy adapter (src/src/netatmo.js):     *)
(* the token store (this.config), the refresh scheduler (initRefresh /     *)
(* refresh), the OAuth authorization-code flow (authenticate) and the four *)
(* cloud operations, together with the callback listener of                *)
(* src/src/adapter.js that resumes a suspended authorization.              *)
(*                                                                         *)
(* JavaScript runs every handler to its next await without interruption,   *)
(* so one action is one such run: from the event that starts or resumes a  *)
(* function up to its next await, return or throw.  What is suspended at   *)
(* an await is an element of the bag pending.                              *)
(***************************************************************************)
EXTENDS Integers, FiniteSets, Sequences, Bags, TLC

VARIABLES
  config,           \* this.config: [token, expires, refresh_token]
  refreshInterval,  \* this.refreshInterval: the timer handle kept by initRefresh
  timers,           \* the runtime's pending setTimeout timers, by deadline (a bag)
  pending,          \* the suspended async continuations (a bag of Cont records)
  database,         \* the persisted add-on config: [expires, refresh_token]; an
                    \* access token that an older release has stored is left
                    \* out, as no step reads or writes it
  now,              \* Date.now(), in milliseconds
  listener,         \* the CallbackListener registered under 'callback-listener'
  stopped,          \* history: unInit() has been called
  degraded,         \* history: a refresh failed or was refused since the last authorization
  last,             \* history: the handler run by the last step and its outcome
  account,          \* the homes, rooms and modules of the user's Netatmo account
  devices,          \* adapter.devices: the RoomDevice of each room key
  moduleMapping,    \* adapter.moduleMapping: module id -> room id
  updateInterval,   \* adapter.updateInterval: the handle kept by postAuth
  intervals,        \* the runtime's setInterval timers
  tasks,            \* the adapter's suspended continuations (a bag of Task records)
  pairings          \* the calls of startPairing() so far

\* the state of the cloud client, and the state of the adapter
tokenVars == <<config, refreshInterval, timers, pending, database, now, listener,
               stopped, degraded>>
adapterVars == <<account, devices, moduleMapping, updateInterval, intervals,
                 tasks, pairings>>

vars == <<config, refreshInterval, timers, pending, database, now, listener,
          stopped, degraded, last, account, devices, moduleMapping, updateInterval,
          intervals, tasks, pairings>>

----------------------------------------------------------------------------
(* Bounds of the model *)

MaxNow == 2         \* the clock stops after MaxNow seconds
MaxInFlight == 2    \* suspended continuations and pending timers at a time
MaxPairings == 1    \* calls of startPairing()
MaxSessions == 2    \* calls of startPairing() where the callback is followed

(* Program constants *)

Empty == 0          \* the empty string '' (and a missing value): falsy
NoTimer == 0        \* this.refreshInterval after `delete`: undefined
Msec == 1000        \* expires_in * 1000

(* Inputs *)

AccessTokens == {1}      \* the access tokens the provider hands out
RefreshTokens == {1, 2}  \* the refresh tokens the provider hands out
ExpiresIn == {1, 2}      \* expires_in of a token response, in seconds
Nonces == {1}            \* values of the random state nonce
States == {1, 2}         \* values of `state` in a callback: the nonce, or another
Codes == {1}             \* authorization codes
HttpStatuses == {200, 204, 403, 500}
CloudOps == {"getHomeData", "getHomeStatus", "setRoomThermPoint", "setThermostatMode"}

\* response.ok of node-fetch: a 2xx status
ResponseOk(status) == status >= 200 /\ status <= 299

\* `!response.ok || response.status !== 200`
Failed(status) == ~ResponseOk(status) \/ status # 200

----------------------------------------------------------------------------
(* Records *)

\* A suspended continuation: the function and the await it is at (pc), and the
\* cloud operation.
Cont(pc, op) == [pc |-> pc, op |-> op]

One(x) == SetToBag({x})

\* The body of a POST /callback: the query parameters of the redirect
Payload(state, code) == [state |-> state, code |-> code]

NoPayload == Payload(0, 0)

\* The handler run by a step: op names it, call the cloud operation, status the
\* HTTP status it handled, result how it ended, arm whether it went on to arm a
\* timer or to refresh(), data the callback payload it was given, saved how
\* the write to the database it started went; for a poll, home is the home
\* polled, snapshot its status and changed the change notifications sent;
\* reported whether it has called reportError; for a request to the callback
\* receiver, request is its method and path, data its body and status the
\* status of the answer; for a command on a device, command is the device and
\* the value, and sent the body posted to the cloud.
Event(op, call, status, result, arm) ==
  [op |-> op, call |-> call, status |-> status, result |-> result, arm |-> arm,
   data |-> NoPayload, saved |-> "none",
   home |-> 0, snapshot |-> [rooms |-> [r \in {} |-> 0], modules |-> [m \in {} |-> 0]],
   changed |-> EmptyBag, reported |-> FALSE,
   request |-> [method |-> "none", path |-> "none"],
   command |-> [home |-> <<>>, room |-> <<>>, value |-> "none"],
   sent |-> [home_id |-> <<>>, mode |-> "none"]]

\* The part of the state that initRefresh and refresh act on.
World == [config |-> config, refreshInterval |-> refreshInterval,
          timers |-> timers, pending |-> pending]

\* A refresh comes from a timer, from a 403 answer or from a continuation that
\* ends, so only a new call and a new authorization add to what is in flight.
HasRoom == BagCardinality(pending) + BagCardinality(timers) < MaxInFlight

Set(w) ==
  /\ config' = w.config
  /\ refreshInterval' = w.refreshInterval
  /\ timers' = w.timers
  /\ pending' = w.pending

----------------------------------------------------------------------------
(* Netatmo *)

\* needsAuth as an earlier release had it: `!this.config.token`
NeedsAuthOfToken(c) == c.token = Empty

\* get needsAuth()
NeedsAuthOf(c) == c.refresh_token = Empty

NeedsAuth == NeedsAuthOf(config)

\* refresh(), up to its first await or return: lines 41-57
RefreshStart(w) ==
  LET w1 == [w EXCEPT !.refreshInterval = NoTimer, !.config.token = Empty]
  IN  IF w1.config.refresh_token = Empty
      THEN w1
      ELSE [w1 EXCEPT !.pending =
              @ (+) One(Cont("refresh", "none"))]

\* whether a call of refresh() in w returns at line 47 without a request
Refused(w) == w.config.refresh_token = Empty

\* (this.config.expires || Date.now()) - Date.now()
ExpiresInOf(c, t) == (IF c.expires # 0 THEN c.expires ELSE t) - t

\* initRefresh without its `&& this.config.token`
ArmsTimerAnyToken(c, t) == ExpiresInOf(c, t) > 0

\* the branch initRefresh takes
ArmsTimer(c, t) == ExpiresInOf(c, t) > 0 /\ c.token # Empty

\* initRefresh()
InitRefresh(w, t) ==
  IF ArmsTimer(w.config, t)
  THEN [w EXCEPT !.refreshInterval = t + ExpiresInOf(w.config, t),
                 !.timers = @ (+) One(t + ExpiresInOf(w.config, t))]
  ELSE RefreshStart(w)

\* the expiry stored without the clock: `data.expires_in * 1000`
ExpiresAtNoClock(t, e) == e * Msec

\* `Date.now() + (data.expires_in * 1000)`
ExpiresAt(t, e) == t + e * Msec

\* the update as an earlier release had it, with the access token
ConfigUpdateWithToken(c) ==
  [token |-> c.token, expires |-> c.expires, refresh_token |-> c.refresh_token]

\* updateConfig(): the values handed to addToConfig
ConfigUpdate(c) == [expires |-> c.expires, refresh_token |-> c.refresh_token]

\* addToConfig(packageName, config): the stored config merged with the update.
\* The database applies the writes in the order updateConfig() is called, so
\* the write is made where updateConfig() is called; the caller resumes from
\* its await in a later step.
AddToConfig(existingConfig, update) ==
  [k \in DOMAIN existingConfig \cup DOMAIN update |->
     IF k \in DOMAIN update THEN update[k] ELSE existingConfig[k]]

\* how a write to the database can go: database.open(), loadConfig() and
\* saveConfig() succeed, or one of them throws
SaveOutcomes == {"saved", "failed"}

\* the config in the database after addToConfig
SaveConfig(existingConfig, update, outcome) ==
  IF outcome = "saved" THEN AddToConfig(existingConfig, update)
                       ELSE existingConfig

\* addToConfig without its try/catch, as the extension script has it: the
\* promise rejects when the write throws
RejectsWhenFailed(outcome) == outcome = "failed"

\* whether the promise of addToConfig rejects: its catch logs
\* SAVING_CONFIG_FAILED and lets it resolve
Rejects(outcome) == FALSE

\* what resumes from `await this.updateConfig()`: nothing, if the promise
\* rejects and the caller throws
Resumes(pc, outcome) ==
  IF Rejects(outcome) THEN EmptyBag ELSE One(Cont(pc, "none"))

\* constructor(config, packageName)
Constructor(c) ==
  LET w == [config |-> c, refreshInterval |-> NoTimer,
            timers |-> EmptyBag, pending |-> EmptyBag]
  IN  IF c.refresh_token # Empty THEN InitRefresh(w, Msec) ELSE w

\* what a call of initRefresh() in w at time t does: arms a timer or refreshes
ArmOf(w, t) == IF ArmsTimer(w.config, t) THEN "timer" ELSE "refresh"

\* whether a call of initRefresh() in w at time t ends in a refused refresh
InitRefused(w, t) == ~ArmsTimer(w.config, t) /\ Refused(w)

----------------------------------------------------------------------------
(* NetatmoEnergyAdapter (src/src/adapter.js): discovery and polling.       *)
(*                                                                         *)
(* The adapter reaches the cloud through getHomeData and getHomeStatus.    *)
(* Where the adapter is followed, a call that it awaits ends in one of the *)
(* ways the cloud client can end it, whatever the token state is: it       *)
(* throws (no access token, or a 403), it returns [] (another non-200      *)
(* answer), or it returns the data.                                        *)

AVAILABLE_TYPES == {"NRV"}

\* a module of a home: a valve (NRV), or a device of a type that is not handled
Module(id, type, room_id) == [id |-> id, type |-> type, room_id |-> room_id]

Home(id, rooms, modules) == [id |-> id, rooms |-> rooms, modules |-> modules]

\* The accounts: the first has one home with one room and one valve; the
\* second two homes, the first with two rooms, a valve and a thermostat, the
\* second with one room and a valve whose room is not among the home's rooms.
Accounts == {1, 2}

\* body.homes of the account
Homes(a) ==
  IF a = 1
  THEN {Home(1, {1}, {Module(1, "NRV", 1)})}
  ELSE {Home(1, {1, 2}, {Module(1, "NRV", 1), Module(2, "NATherm1", 2)}),
        Home(2, {1}, {Module(3, "NRV", 2)})}

\* how a call of the cloud client ends for the adapter that awaits it
Outcomes == {"threw", "empty", "data"}

\* what getHomeData() resolves to: body.homes, or []
HomeDataOf(outcome) == IF outcome = "data" THEN Homes(account) ELSE {}

\* a property value that was never set: undefined, which `!=` tells from every
\* number and string
Undefined == -1

\* the name of a property: of the room (module 0), or of a module of the room
PropertyName(module, name) == <<module, name>>

BaseProperties ==
  {PropertyName(0, n) : n \in {"temperature", "targetTemperature", "heating", "mode"}}

\* the properties addModule(module) adds
ModuleProperties(id) == {PropertyName(id, n) : n \in {"signal", "battery"}}

\* `${home.id}-${room.id}`
DeviceId(home, room) == <<home, room>>

\* new RoomDevice(...): the four properties of the description, without values;
\* serial tells the objects made for one id apart
RoomDevice(serial) ==
  [serial |-> serial, properties |-> [n \in BaseProperties |-> Undefined]]

\* roomDevice.addModule(module)
AddModule(device, id) ==
  [device EXCEPT !.properties =
     [n \in DOMAIN @ \cup ModuleProperties(id) |->
        IF n \in ModuleProperties(id) THEN Undefined ELSE @[n]]]

RECURSIVE AddModules(_, _)
AddModules(device, ids) ==
  IF ids = {} THEN device
  ELSE LET id == CHOOSE i \in ids : TRUE
       IN  AddModules(AddModule(device, id), ids \ {id})

\* the ids home.rooms.forEach makes a device for
RoomIds(homeData) == UNION {{DeviceId(h.id, r) : r \in h.rooms} : h \in homeData}

\* every type is taken for a valve
IncludesAnyType(module) == TRUE

\* AVAILABLE_TYPES.includes(module.type)
Includes(module) == module.type \in AVAILABLE_TYPES

\* the modules home.modules.forEach hands to addModule, given the ids that
\* have a device then: of an available type, in a room that has a device
Attached(homeData, ids) ==
  UNION {{[home |-> h.id, id |-> m.id, room_id |-> m.room_id] : m \in
            {x \in h.modules : Includes(x) /\ DeviceId(h.id, x.room_id) \in ids}}
         : h \in homeData}

\* `this.devices[id] = new RoomDevice(...)`
RoomDeviceFor(devs, id) ==
  RoomDevice(IF id \in DOMAIN devs THEN devs[id].serial + 1 ELSE 1)

\* this.devices after createDevices() has walked homeData
CreateDevices(devs, homeData) ==
  LET ids == DOMAIN devs \cup RoomIds(homeData) IN
  [id \in ids |->
     AddModules(IF id \in RoomIds(homeData) THEN RoomDeviceFor(devs, id) ELSE devs[id],
                {m.id : m \in {x \in Attached(homeData, ids) :
                                 DeviceId(x.home, x.room_id) = id}})]

\* this.moduleMapping after createDevices() has walked homeData
CreateMapping(mapping, devs, homeData) ==
  LET att == Attached(homeData, DOMAIN devs \cup RoomIds(homeData)) IN
  [id \in DOMAIN mapping \cup {m.id : m \in att} |->
     IF \E m \in att : m.id = id
     THEN (CHOOSE m \in att : m.id = id).room_id
     ELSE mapping[id]]

\* a suspended continuation of the adapter: the function and the await it is
\* at (pc), who called it, and the home it polls
Task(pc, caller, home) == [pc |-> pc, caller |-> caller, home |-> home]

NoDevices == [id \in {} |-> RoomDevice(0)]
NoMapping == [id \in {} |-> 0]

\* a new discovery or poll may start
HasTaskRoom == BagCardinality(tasks) < MaxInFlight

\* init(): postAuth() is called if the adapter is authorized, and awaits
\* getHomeData() in createDevices()
AdapterInit(c, a) ==
  /\ account = a
  /\ devices = NoDevices
  /\ moduleMapping = NoMapping
  /\ updateInterval = NoTimer
  /\ intervals = 0
  /\ pairings = 0
  /\ tasks = (IF ~NeedsAuthOf(c) THEN One(Task("createDevices", "init", 0))
                                ELSE EmptyBag)

----------------------------------------------------------------------------
(* Initial states: the add-on config as loaded from the database (an older *)
(* release also stored the access token), after `new Netatmo(config)`.     *)
(* Every release stores the access token together with its expiry, so a    *)
(* stored access token comes with a stored expiry.                         *)

LoadedConfigs ==
  {c \in [token : {Empty, 1}, expires : {0, Msec, 2 * Msec},
          refresh_token : {Empty, 1}] :
     c.token # Empty => c.expires # 0}

NoListener == [nonce |-> 0, resolved |-> TRUE]

\* what a POST /callback may carry: any state or none, a code or none
Payloads == [state : {Empty} \cup States, code : {Empty} \cup Codes]

\* the cloud client after `new Netatmo(config)` with the loaded config c
NetatmoInit(c) ==
  LET w == Constructor(c) IN
  /\ config = w.config
  /\ refreshInterval = w.refreshInterval
  /\ timers = w.timers
  /\ pending = w.pending
  /\ database = ConfigUpdate(c)
  /\ now = Msec
  /\ listener = NoListener
  /\ stopped = FALSE
  /\ degraded = FALSE
  /\ last = Event("constructor", "none", 0, "none",
                  IF c.refresh_token # Empty THEN ArmOf([config |-> c], Msec)
                                             ELSE "none")

\* the adapter where only the cloud client is followed: no devices, and none
\* of its continuations
AdapterAside ==
  /\ account = 2
  /\ devices = NoDevices
  /\ moduleMapping = NoMapping
  /\ updateInterval = NoTimer
  /\ intervals = 0
  /\ pairings = 0
  /\ tasks = EmptyBag

\* The cloud client is followed from any loaded config.
Init ==
  \E c \in LoadedConfigs :
    /\ NetatmoInit(c)
    /\ AdapterAside

----------------------------------------------------------------------------
(* The clock and the refresh timer *)

Tick ==
  /\ now < MaxNow * Msec
  /\ now' = now + Msec
  /\ last' = Event("tick", "none", 0, "none", "none")
  /\ UNCHANGED <<config, refreshInterval, timers, pending, database, listener,
                 degraded>>
  /\ UNCHANGED stopped
  /\ UNCHANGED adapterVars

\* setTimeout(() => this.refresh(), expiresIn) comes due
TimerFires ==
  \E d \in BagToSet(timers) :
    /\ d <= now
    /\ LET w == [World EXCEPT !.timers = @ (-) One(d)] IN
       /\ Set(RefreshStart(w))
       /\ degraded' = (degraded \/ Refused(w))
    /\ last' = Event("timer", "none", 0, "none", "refresh")
    /\ UNCHANGED <<database, now, listener>>
    /\ UNCHANGED stopped
    /\ UNCHANGED adapterVars

\* unInit(): `if (this.refreshInterval) clearTimeout(this.refreshInterval)`;
\* the handle stays in this.refreshInterval
UnInit ==
  /\ ~stopped
  /\ stopped' = TRUE
  /\ timers' = (IF refreshInterval # NoTimer THEN timers (-) One(refreshInterval)
                                              ELSE timers)
  /\ last' = Event("unInit", "none", 0, "none", "none")
  /\ UNCHANGED <<config, refreshInterval, pending, database, now, listener, degraded>>
  /\ UNCHANGED adapterVars

----------------------------------------------------------------------------
(* refresh(): the answer of the token endpoint, lines 62-66 and 70-75 *)

\* the failure branch as an earlier release had it: only the access token,
\* cleared at the start of refresh(), stays empty
InvalidatedTokenOnly(c) == [c EXCEPT !.token = Empty]

\* `this.config.token = ''; this.config.refresh_token = '';`
Invalidated(c) == [c EXCEPT !.token = Empty, !.refresh_token = Empty]

\* the answer is handled, the write to the database going one of the ways in
\* outcomes
RefreshAnswered(outcomes) ==
  \E k \in BagToSet(pending), status \in HttpStatuses,
     a \in AccessTokens, e \in ExpiresIn, r \in RefreshTokens,
     o \in outcomes :
    /\ k.pc = "refresh"
    /\ LET rest == pending (-) One(k) IN
       IF Failed(status)
       THEN LET c == Invalidated(config) IN
            /\ Set([World EXCEPT
                      !.config = c,
                      !.pending = rest (+) Resumes("refresh_failed", o)])
            /\ database' = SaveConfig(database, ConfigUpdate(c), o)
            /\ degraded' = TRUE
            /\ last' = [Event("refresh_response", "none", status, "failed", "none")
                          EXCEPT !.saved = o]
       ELSE LET c == [token |-> a, expires |-> ExpiresAt(now, e), refresh_token |-> r] IN
            /\ Set([World EXCEPT
                      !.config = c,
                      !.pending = rest (+) Resumes("refresh_ok", o)])
            /\ database' = SaveConfig(database, ConfigUpdate(c), o)
            /\ degraded' = degraded
            /\ last' = [Event("refresh_response", "none", status, "ok", "none")
                          EXCEPT !.saved = o]
    /\ UNCHANGED <<now, listener>>
    /\ UNCHANGED stopped
    /\ UNCHANGED adapterVars

\* the answer is handled and the write succeeds
RefreshResponse == RefreshAnswered({"saved"})

\* the answer is handled and the write succeeds or fails
RefreshResponseUnsaved == RefreshAnswered(SaveOutcomes)

\* `await this.updateConfig()` of refresh() returns: line 67, or line 77
RefreshSaved ==
  \E k \in BagToSet(pending) :
    /\ k.pc \in {"refresh_failed", "refresh_ok"}
    /\ LET w == [World EXCEPT !.pending = @ (-) One(k)] IN
       IF k.pc = "refresh_failed"
       THEN /\ Set(w)
            /\ degraded' = degraded
            /\ last' = Event("refresh_done", "none", 0, "failed", "none")
       ELSE /\ Set(InitRefresh(w, now))
            /\ degraded' = (degraded \/ InitRefused(w, now))
            /\ last' = Event("refresh_done", "none", 0, "ok", ArmOf(w, now))
    /\ UNCHANGED <<database, now, listener>>
    /\ UNCHANGED stopped
    /\ UNCHANGED adapterVars

----------------------------------------------------------------------------
(* The four cloud operations: getHomeData, getHomeStatus, setRoomThermPoint *)
(* and setThermostatMode share one envelope.                                *)

\* the operation without its token check
InvokeUnchecked(op) ==
  /\ HasRoom
  /\ Set([World EXCEPT !.pending = @ (+) One(Cont("call", op))])
  /\ last' = Event("invoke", op, 0, "none", "none")
  /\ UNCHANGED <<database, now, listener, degraded>>
  /\ UNCHANGED stopped
  /\ UNCHANGED adapterVars

\* the operation is called: the token check, then the POST
Invoke(op) ==
  /\ IF config.token = Empty
     THEN /\ last' = Event("invoke", op, 0, "threw", "none")
          /\ UNCHANGED <<config, refreshInterval, timers, pending>>
     ELSE /\ HasRoom
          /\ Set([World EXCEPT
                    !.pending = @ (+) One(Cont("call", op))])
          /\ last' = Event("invoke", op, 0, "none", "none")
  /\ UNCHANGED <<database, now, listener, degraded>>
  /\ UNCHANGED stopped
  /\ UNCHANGED adapterVars

\* a 403 handled as a failed refresh is: both tokens cleared
ForbiddenClearsBoth(w) ==
  RefreshStart([w EXCEPT !.config.token = Empty, !.config.refresh_token = Empty])

\* `this.config.token = ''; this.refresh();` of the 403 branch
Forbidden(w) == RefreshStart([w EXCEPT !.config.token = Empty])

\* the operation's POST is answered
Response(op) ==
  \E k \in BagToSet(pending), status \in HttpStatuses :
    /\ k.pc = "call" /\ k.op = op
    /\ LET w == [World EXCEPT !.pending = @ (-) One(k)] IN
       IF Failed(status)
       THEN IF status = 403
            THEN /\ Set(Forbidden(w))
                 /\ degraded' = (degraded \/ Refused(w))
                 /\ last' = Event("response", op, status, "threw", "refresh")
            ELSE /\ Set(w)
                 /\ degraded' = degraded
                 /\ last' = Event("response", op, status, "empty", "none")
       ELSE /\ Set(w)
            /\ degraded' = degraded
            /\ last' = Event("response", op, status, "data", "none")
    /\ UNCHANGED <<database, now, listener>>
    /\ UNCHANGED stopped
    /\ UNCHANGED adapterVars

----------------------------------------------------------------------------
(* The authorization-code flow: NetatmoEnergyAdapter.authenticate drives   *)
(* the generator Netatmo.authenticate through a CallbackListener.          *)

\* startPairing() finds needsAuth and starts a flow: the generator draws its
\* state nonce and yields the URL, the adapter registers a new listener
AuthBegin ==
  /\ NeedsAuth
  /\ \E n \in Nonces : listener' = [nonce |-> n, resolved |-> FALSE]
  /\ last' = Event("auth_begin", "none", 0, "none", "none")
  /\ UNCHANGED <<config, refreshInterval, timers, pending, database, now, degraded>>
  /\ UNCHANGED stopped
  /\ UNCHANGED adapterVars

\* the check without its `|| !data.code`
CallbackRejectedAnyCode(state, data) ==
  data.state = Empty \/ data.state # state

\* `!data.state || data.state !== state || !data.code`
CallbackRejected(state, data) ==
  data.state = Empty \/ data.state # state \/ data.code = Empty

\* POST /callback with body {state, code}: the listener's promise resolves and
\* the generator resumes, up to its POST to the token endpoint
Callback ==
  \E data \in Payloads :
    /\ ~listener.resolved
    /\ listener' = NoListener
    /\ IF CallbackRejected(listener.nonce, data)
       THEN /\ last' = [Event("callback", "none", 0, "threw", "none")
                          EXCEPT !.data = data]
            /\ UNCHANGED <<config, refreshInterval, timers, pending>>
       ELSE /\ HasRoom
            /\ Set([World EXCEPT
                      !.pending = @ (+) One(Cont("auth", "none"))])
            /\ last' = [Event("callback", "none", 0, "none", "none")
                          EXCEPT !.data = data]
    /\ UNCHANGED <<database, now, degraded>>
    /\ UNCHANGED stopped
    /\ UNCHANGED adapterVars

\* the token endpoint answers the code exchange: lines 111-119
AuthAnswered(outcomes) ==
  \E k \in BagToSet(pending), status \in HttpStatuses,
     a \in AccessTokens, e \in ExpiresIn, r \in RefreshTokens,
     o \in outcomes :
    /\ k.pc = "auth"
    /\ LET rest == pending (-) One(k) IN
       IF Failed(status)
       THEN /\ Set([World EXCEPT !.pending = rest])
            /\ database' = database
            /\ degraded' = degraded
            /\ last' = Event("auth_response", "none", status, "threw", "none")
       ELSE LET c == [token |-> a, expires |-> ExpiresAt(now, e), refresh_token |-> r] IN
            /\ Set([World EXCEPT
                      !.config = c,
                      !.pending = rest (+) Resumes("auth_ok", o)])
            /\ database' = SaveConfig(database, ConfigUpdate(c), o)
            /\ degraded' = FALSE
            /\ last' = [Event("auth_response", "none", status, "ok", "none")
                          EXCEPT !.saved = o]
    /\ UNCHANGED <<now, listener>>
    /\ UNCHANGED stopped
    /\ UNCHANGED adapterVars

\* the answer is handled and the write succeeds
AuthResponse == AuthAnswered({"saved"})

\* the answer is handled and the write succeeds or fails
AuthResponseUnsaved == AuthAnswered(SaveOutcomes)

\* authenticate() without its closing `this.initRefresh()`
AuthSavedNoInitRefresh ==
  \E k \in BagToSet(pending) :
    /\ k.pc = "auth_ok"
    /\ LET w == [World EXCEPT !.pending = @ (-) One(k)] IN
       /\ Set(w)
       /\ degraded' = degraded
       /\ last' = Event("auth_done", "none", 0, "ok", ArmOf(w, now))
    /\ UNCHANGED <<database, now, listener>>
    /\ UNCHANGED stopped
    /\ UNCHANGED adapterVars

\* `await this.updateConfig()` of authenticate() returns: line 121
AuthSaved ==
  \E k \in BagToSet(pending) :
    /\ k.pc = "auth_ok"
    /\ LET w == [World EXCEPT !.pending = @ (-) One(k)] IN
       /\ Set(InitRefresh(w, now))
       /\ degraded' = (degraded \/ InitRefused(w, now))
       /\ last' = Event("auth_done", "none", 0, "ok", ArmOf(w, now))
    /\ UNCHANGED <<database, now, listener>>
    /\ UNCHANGED stopped
    /\ UNCHANGED adapterVars

----------------------------------------------------------------------------
(* Polling: updateHomeData() and RoomDevice.updateProperty *)

\* the values of the property `heating`: the strings 'heating' and 'off'
Heating == 1
Off == 2

\* a status snapshot read twice: what it reports of a room and of a module
Readings ==
  { [room |-> [therm_measured_temperature |-> 19, therm_setpoint_temperature |-> 20,
               heating_power_request |-> 0, therm_setpoint_mode |-> "schedule"],
     module |-> [battery_level |-> 2300, rf_strength |-> 95]],
    [room |-> [therm_measured_temperature |-> 20, therm_setpoint_temperature |-> 20,
               heating_power_request |-> 50, therm_setpoint_mode |-> "away"],
     module |-> [battery_level |-> 3300, rf_strength |-> 60]] }

\* clamp without its Math.max
clampToMax(num) == IF num < 100 THEN num ELSE 100

\* clamp(num, max = 100, min = 0)
clamp(num) ==
  LET least == IF num < 100 THEN num ELSE 100
  IN  IF least > 0 THEN least ELSE 0

\* mapSignalToPercent(signal, min, range = 30)
mapSignalToPercent(signal, min) == clamp(((min - signal) * 90) \div 30 + 10)

mapRfToPercent(rf) == mapSignalToPercent(rf, 90)

\* levels with another medium
LevelsOfMedium2500 == <<2200, 2200, 2500, 2700, 3200>>

\* LEVELS.NRV, in the order of Object.values, and steps
Levels == <<2200, 2200, 2400, 2700, 3200>>
Steps == <<20, 50, 80, 100>>

\* interpolateBattery(batteryLevel, 'NRV'); the sequences count from 1, the
\* arrays of the source from 0
interpolateBattery(batteryLevel) ==
  IF batteryLevel >= Levels[5] THEN 100
  ELSE IF batteryLevel < Levels[2] THEN 0
  ELSE LET i == IF batteryLevel >= Levels[4] THEN 3
                ELSE IF batteryLevel >= Levels[3] THEN 2 ELSE 1
       IN  Steps[i] + ((Steps[i + 1] - Steps[i]) * (batteryLevel - Levels[i + 1]))
                        \div (Levels[i + 2] - Levels[i + 1])

\* the status snapshots of a home: a reading for each of its rooms and modules,
\* here the same for all rooms and the same for all modules
Snapshots(home) ==
  {[rooms |-> [r \in home.rooms |-> reading.room],
    modules |-> [m \in {x.id : x \in home.modules} |-> reading.module]] :
     reading \in Readings}

NoSnapshot == [rooms |-> [r \in {} |-> 0], modules |-> [m \in {} |-> 0]]

\* a change notification: the device and the property
Notification(id, name) == <<id, name>>

\* updateProperty without its comparison: every value is stored and notified
DiffersAlways(cached, value) == TRUE

\* `property.value != value`: on the values a poll supplies (numbers, the two
\* strings of `heating`, and undefined before the first update) `!=` is
\* difference
Differs(cached, value) == cached # value

\* what a walk over a snapshot has done so far: the devices, the notifications
\* sent, and whether it has thrown
Walk(devs, changed, threw) == [devices |-> devs, changed |-> changed, threw |-> threw]

\* device.updateProperty(propertyName, value), for the device with this id
UpdateProperty(walk, id, name, value) ==
  IF walk.threw \/ id \notin DOMAIN walk.devices THEN [walk EXCEPT !.threw = TRUE]
  ELSE IF name \notin DOMAIN walk.devices[id].properties THEN [walk EXCEPT !.threw = TRUE]
  ELSE IF Differs(walk.devices[id].properties[name], value)
       THEN [walk EXCEPT !.devices[id].properties[name] = value,
                         !.changed = @ (+) One(Notification(id, name))]
       ELSE walk

\* the body of homeStatusData.rooms.forEach, for one room
UpdateRoom(walk, id, room) ==
  UpdateProperty(
    UpdateProperty(
      UpdateProperty(walk, id, PropertyName(0, "temperature"),
                     room.therm_measured_temperature),
      id, PropertyName(0, "targetTemperature"), room.therm_setpoint_temperature),
    id, PropertyName(0, "heating"),
    IF room.heating_power_request > 0 THEN Heating ELSE Off)

\* homeStatusData.rooms.forEach, rooms in the order of their ids
RECURSIVE UpdateRooms(_, _, _, _)
UpdateRooms(walk, home, rooms, snapshot) ==
  IF rooms = {} THEN walk
  ELSE LET r == CHOOSE x \in rooms : \A y \in rooms : x <= y
       IN  UpdateRooms(UpdateRoom(walk, DeviceId(home, r), snapshot.rooms[r]),
                       home, rooms \ {r}, snapshot)

\* the body of homeStatusData.modules.forEach, for one module; a module
\* without a room in moduleMapping has the device id `${home.id}-undefined`
UpdateModule(walk, home, module, mapping, reading) ==
  IF ~Includes(module) THEN walk
  ELSE LET id == DeviceId(home, IF module.id \in DOMAIN mapping
                                THEN mapping[module.id] ELSE Undefined)
       IN  UpdateProperty(
             UpdateProperty(walk, id, PropertyName(module.id, "battery"),
                            interpolateBattery(reading.battery_level)),
             id, PropertyName(module.id, "signal"),
             mapRfToPercent(reading.rf_strength))

\* homeStatusData.modules.forEach, modules in the order of their ids
RECURSIVE UpdateModules(_, _, _, _, _)
UpdateModules(walk, home, modules, mapping, snapshot) ==
  IF modules = {} THEN walk
  ELSE LET m == CHOOSE x \in modules : \A y \in modules : x.id <= y.id
       IN  UpdateModules(
             UpdateModule(walk, home, m, mapping, snapshot.modules[m.id]),
             home, modules \ {m}, mapping, snapshot)

\* the arrow function of updateHomeData for one home, after getHomeStatus: an
\* exception ends it where it is thrown
UpdateHome(devs, mapping, home, snapshot) ==
  UpdateModules(UpdateRooms(Walk(devs, EmptyBag, FALSE), home.id, home.rooms, snapshot),
                home.id, home.modules, mapping, snapshot)

----------------------------------------------------------------------------
(* The adapter's steps *)

\* the step of the adapter: op, result, the home polled, the snapshot walked
\* and the notifications sent; for createDevices, call is its caller
AdapterEvent(op, result, home, snapshot, changed) ==
  [Event(op, "none", 0, result, "none") EXCEPT
     !.home = home, !.snapshot = snapshot, !.changed = changed]

\* authenticate() of the adapter at `await listener.successPromise`: its
\* listener is the one in the Map of the handler
Session == Task("authenticate", "pairing", 0)

\* authenticate() at `await listener.successPromise`, after another listener
\* has taken the place of its listener in the Map
SessionReplaced == Task("authenticate_replaced", "pairing", 0)

\* the calls of authenticate() that are suspended on the promise of a listener
SessionsAwaiting(ts) == CopiesIn(Session, ts) + CopiesIn(SessionReplaced, ts)

\* `this.listeners.set(listener.id, listener)` with the id every listener
\* has, 'callback-listener': the listener that was in the Map is not in it any
\* more, and the session that awaits its promise goes on awaiting it
Replaced(ts) ==
  IF CopiesIn(Session, ts) = 0 THEN ts
  ELSE [t \in (DOMAIN ts \ {Session}) \cup {SessionReplaced} |->
          IF t = SessionReplaced THEN SessionsAwaiting(ts) ELSE ts[t]]

\* startPairing(): authenticate() if needsAuth, else createDevices()
StartPairing ==
  /\ pairings < MaxPairings
  /\ HasTaskRoom
  /\ pairings' = pairings + 1
  /\ \E needsAuth \in BOOLEAN :
       tasks' = (IF needsAuth THEN Replaced(tasks) (+) One(Session)
                              ELSE tasks (+) One(Task("createDevices", "pairing", 0)))
  /\ last' = AdapterEvent("startPairing", "none", 0, NoSnapshot, EmptyBag)
  /\ UNCHANGED <<account, devices, moduleMapping, updateInterval, intervals>>
  /\ UNCHANGED tokenVars

\* authenticate() of the adapter resumes from the callback and the code
\* exchange: it calls postAuth(), or it throws and startPairing() with it
Authenticated ==
  \E k \in BagToSet(tasks), ok \in BOOLEAN :
    /\ k.pc = "authenticate"
    /\ tasks' = (tasks (-) One(k)) (+)
                  (IF ok THEN One(Task("createDevices", "authenticate", 0))
                         ELSE EmptyBag)
    /\ last' = AdapterEvent("authenticate", IF ok THEN "ok" ELSE "threw", 0,
                            NoSnapshot, EmptyBag)
    /\ UNCHANGED <<account, devices, moduleMapping, updateInterval, intervals,
                   pairings>>
    /\ UNCHANGED tokenVars

\* postAuth() without its `if (!this.updateInterval)`
StartsIntervalAlways(handle) == TRUE

\* `if (!this.updateInterval)` of postAuth()
StartsInterval(handle) == handle = NoTimer

\* createDevices() resumes from getHomeData(). Called by postAuth() or by
\* startPairing(), an exception is caught and reported with reportError, and
\* called by postAuth() it ends postAuth(); otherwise postAuth() starts the
\* interval, if there is none, and calls updateHomeData(). When postAuth() was
\* called by authenticate(), startPairing() resumes and calls createDevices().
\* getHomeData() ends in one of the ways in outcomes.
DiscoveredAs(outcomes) ==
  \E k \in BagToSet(tasks), o \in outcomes :
    /\ k.pc = "createDevices"
    /\ LET rest == tasks (-) One(k)
           again == IF k.caller = "authenticate"
                    THEN One(Task("createDevices", "pairing", 0)) ELSE EmptyBag
       IN
       IF o = "threw"
       THEN /\ tasks' = rest (+) again
            /\ UNCHANGED <<devices, moduleMapping, updateInterval, intervals>>
       ELSE /\ devices' = CreateDevices(devices, HomeDataOf(o))
            /\ moduleMapping' = CreateMapping(moduleMapping, devices, HomeDataOf(o))
            /\ IF k.caller = "pairing"
               THEN /\ tasks' = rest
                    /\ UNCHANGED <<updateInterval, intervals>>
               ELSE /\ tasks' = rest (+) One(Task("updateHomeData", "postAuth", 0))
                                     (+) again
                    /\ IF StartsInterval(updateInterval)
                       THEN updateInterval' = 1 /\ intervals' = intervals + 1
                       ELSE UNCHANGED <<updateInterval, intervals>>
    /\ last' = [AdapterEvent("createDevices", o, 0, NoSnapshot, EmptyBag)
                  EXCEPT !.call = k.caller, !.reported = (o = "threw")]
    /\ UNCHANGED <<account, pairings>>
    /\ UNCHANGED tokenVars

\* getHomeData() ends in any way
Discovered == DiscoveredAs(Outcomes)

\* getHomeData() was called while the store had no access token: it has thrown
DiscoveredWithoutToken == DiscoveredAs({"threw"})

\* setInterval(() => this.updateHomeData(), 5 * 60 * 1000) comes due
IntervalFires ==
  /\ intervals > 0
  /\ HasTaskRoom
  /\ tasks' = tasks (+) One(Task("updateHomeData", "interval", 0))
  /\ last' = AdapterEvent("interval", "none", 0, NoSnapshot, EmptyBag)
  /\ UNCHANGED <<account, devices, moduleMapping, updateInterval, intervals,
                 pairings>>
  /\ UNCHANGED tokenVars

\* updateHomeData() resumes from getHomeData(): homeData.forEach calls
\* getHomeStatus(home.id) for every home before any of them is answered
HomesListed ==
  \E k \in BagToSet(tasks), o \in Outcomes :
    /\ k.pc = "updateHomeData"
    /\ tasks' = (tasks (-) One(k)) (+)
                  SetToBag({Task("getHomeStatus", "updateHomeData", h.id) :
                              h \in HomeDataOf(o)})
    /\ last' = AdapterEvent("updateHomeData", o, 0, NoSnapshot, EmptyBag)
    /\ UNCHANGED <<account, devices, moduleMapping, updateInterval, intervals,
                   pairings>>
    /\ UNCHANGED tokenVars

\* a loop over the homes that awaits each home in turn: an exception ends the
\* polls of the other homes with it
RemainingNone(ts, k) ==
  [t \in {x \in DOMAIN ts : x.pc # "getHomeStatus"} |-> ts[t]]

\* what is left suspended when the arrow function of one home ends
Remaining(ts, k) == ts (-) One(k)

\* the arrow function of one home resumes from getHomeStatus(home.id); [] has
\* no rooms, and `homeStatusData.rooms.forEach` throws
HomePolled ==
  \E k \in BagToSet(tasks), o \in Outcomes :
    /\ k.pc = "getHomeStatus"
    /\ LET home == CHOOSE h \in Homes(account) : h.id = k.home IN
       IF o = "data"
       THEN \E snapshot \in Snapshots(home) :
              LET walk == UpdateHome(devices, moduleMapping, home, snapshot) IN
              /\ devices' = walk.devices
              /\ tasks' = (IF walk.threw THEN Remaining(tasks, k) ELSE tasks (-) One(k))
              /\ last' = AdapterEvent("getHomeStatus",
                                      IF walk.threw THEN "threw" ELSE "updated",
                                      k.home, snapshot, walk.changed)
       ELSE /\ devices' = devices
            /\ tasks' = Remaining(tasks, k)
            /\ last' = AdapterEvent("getHomeStatus", "threw", k.home, NoSnapshot,
                                    EmptyBag)
    /\ UNCHANGED <<account, moduleMapping, updateInterval, intervals, pairings>>
    /\ UNCHANGED tokenVars

----------------------------------------------------------------------------
(* The readings of a valve: every battery level and every signal strength  *)
(* that a status snapshot may report of the valve of a discovered room     *)

\* rf_strength of a module
Strengths == 30..130

\* battery_level of a module, in millivolts
Millivolts == {2000 + 25 * k : k \in 0..56}

\* the arrow function of updateHomeData for a home, suspended in
\* getHomeStatus(home.id) whose answer, on its way, reports this of the modules
StatusTask(home, reading) ==
  [pc |-> "homestatus", caller |-> "updateHomeData", home |-> home,
   reading |-> reading]

\* the arrow function of the home resumes from getHomeStatus(home.id) with
\* the status
StatusArrives ==
  \E k \in BagToSet(tasks), r \in Readings :
    /\ k.pc = "homestatus"
    /\ LET home == CHOOSE h \in Homes(account) : h.id = k.home
           snapshot == [rooms |-> [x \in home.rooms |-> r.room],
                        modules |-> [m \in {x.id : x \in home.modules} |-> k.reading]]
           walk == UpdateHome(devices, moduleMapping, home, snapshot)
       IN  /\ devices' = walk.devices
           /\ tasks' = tasks (-) One(k)
           /\ last' = AdapterEvent("getHomeStatus",
                                   IF walk.threw THEN "threw" ELSE "updated",
                                   k.home, snapshot, walk.changed)
    /\ UNCHANGED <<account, moduleMapping, updateInterval, intervals, pairings>>
    /\ UNCHANGED tokenVars

----------------------------------------------------------------------------
(* Commands: the mode property of a room device is set.  Strings that are   *)
(* put together and taken apart are sequences of pieces: a piece is "-" or  *)
(* a run of characters without "-".                                         *)

\* 'thermostat-room-'
DEVICE_PREFIX == <<"thermostat", "-", "room", "-">>

\* the ids of homes and rooms: Netatmo's ids are hexadecimal or decimal
\* numerals, so they have no "-"
IdStrings == {<<"5a">>, <<"7c">>, <<"20">>}

\* the values the mode property is set to: those of its enum, and others
ModeValues == {"off", "auto", "heat", "away"}

\* the id of the RoomDevice of a room: `${DEVICE_PREFIX}${home.id}-${room.id}`
RoomDeviceIdOf(home, room) == DEVICE_PREFIX \o home \o <<"-">> \o room

\* whether `part` stands in `string` at position i
StandsAt(string, part, i) ==
  /\ i + Len(part) - 1 <= Len(string)
  /\ \A j \in 1..Len(part) : string[i + j - 1] = part[j]

\* string.replace(part, ''): the first occurrence of part is taken out
ReplaceFirst(string, part) ==
  IF \E i \in 1..Len(string) : StandsAt(string, part, i)
  THEN LET i == CHOOSE x \in 1..Len(string) :
                  /\ StandsAt(string, part, x)
                  /\ \A y \in 1..(x - 1) : ~StandsAt(string, part, y)
       IN  SubSeq(string, 1, i - 1) \o SubSeq(string, i + Len(part), Len(string))
  ELSE string

\* string.split('-')
RECURSIVE Split(_)
Split(string) ==
  IF \E i \in 1..Len(string) : string[i] = "-"
  THEN LET i == CHOOSE x \in 1..Len(string) :
                  string[x] = "-" /\ \A y \in 1..(x - 1) : string[y] # "-"
       IN  <<SubSeq(string, 1, i - 1)>> \o Split(SubSeq(string, i + 1, Len(string)))
  ELSE <<string>>

\* RoomDevice.getIds()
getIds(id) == Split(ReplaceFirst(id, DEVICE_PREFIX))

\* the mode mapped the other way round
ProviderModeOfAuto(value) == IF value = "auto" THEN "schedule" ELSE "away"

\* `value === 'off' ? 'away' : 'schedule'`
ProviderMode(value) == IF value = "off" THEN "away" ELSE "schedule"

\* the body of Netatmo.setThermostatMode: home_id and mode are appended when
\* they are not empty
ThermModeBody(homeId, mode) ==
  [home_id |-> homeId, mode |-> IF mode # "" THEN mode ELSE "none"]

\* ThermostatModeProperty.setValue(value) on the device of a room:
\* RoomDevice.setThermostatMode, NetatmoEnergyAdapter.setThermostatMode and
\* Netatmo.setThermostatMode, up to its POST
SetThermostatMode ==
  \E home \in IdStrings, room \in IdStrings, value \in ModeValues :
    LET home_id == getIds(RoomDeviceIdOf(home, room))[1]
        command == [home |-> home, room |-> room, value |-> value]
    IN
    /\ IF config.token = Empty
       THEN /\ last' = [Event("invoke", "setThermostatMode", 0, "threw", "none")
                          EXCEPT !.command = command]
            /\ UNCHANGED <<config, refreshInterval, timers, pending>>
       ELSE /\ HasRoom
            /\ Set([World EXCEPT
                      !.pending = @ (+) One(Cont("call", "setThermostatMode"))])
            /\ last' = [Event("invoke", "setThermostatMode", 0, "none", "none")
                          EXCEPT !.command = command,
                                 !.sent = ThermModeBody(home_id, ProviderMode(value))]
    /\ UNCHANGED <<database, now, listener, stopped, degraded>>
    /\ UNCHANGED adapterVars

----------------------------------------------------------------------------
(* The callback receiver: CallbackAPIHandler and CallbackListener, with the *)
(* sessions of authenticate() that await a callback                         *)

Methods == {"POST", "GET"}
Paths == {"/callback", "/"}

\* a request to the handler: method, path and body
Request(method, path, body) == [method |-> method, path |-> path, body |-> body]

Requests == {Request(m, p, b) : m \in Methods, p \in Paths, b \in Payloads}

\* handleRequest: not `request.method !== 'POST' || request.path !== '/callback'`
Routed(request) == request.method = "POST" /\ request.path = "/callback"

\* the step of handleRequest: the request, the status of the answer and what
\* became of the session it was delivered to
RequestEvent(request, status, result) ==
  [Event("request", "none", status, result, "none") EXCEPT
     !.data = request.body,
     !.request = [method |-> request.method, path |-> request.path]]

\* startPairing() finds needsAuth and calls authenticate(): the generator
\* draws its nonce and yields the URL, the listener is put into the Map and
\* authenticate() awaits its promise
PairingBegin ==
  /\ NeedsAuth
  /\ pairings < MaxSessions
  /\ pairings' = pairings + 1
  /\ \E n \in Nonces : listener' = [nonce |-> n, resolved |-> FALSE]
  /\ tasks' = Replaced(tasks) (+) One(Session)
  /\ last' = Event("auth_begin", "none", 0, "none", "none")
  /\ UNCHANGED <<config, refreshInterval, timers, pending, database, now, stopped,
                 degraded>>
  /\ UNCHANGED <<account, devices, moduleMapping, updateInterval, intervals>>

\* handleRequest(request): 404, or emit() to the listeners in the Map and 200.
\* The listener resolves its promise with the body; the session that awaits
\* it hands the body to the generator, which throws (and authenticate() and
\* startPairing() with it) or posts the code to the token endpoint.
HandleRequest ==
  \E request \in Requests :
    /\ IF ~Routed(request)
       THEN /\ last' = RequestEvent(request, 404, "none")
            /\ UNCHANGED <<listener, tasks, config, refreshInterval, timers, pending>>
       ELSE IF listener.resolved
       THEN /\ last' = RequestEvent(request, 200, "none")
            /\ UNCHANGED <<listener, tasks, config, refreshInterval, timers, pending>>
       ELSE /\ listener' = NoListener
            /\ IF CallbackRejected(listener.nonce, request.body)
               THEN /\ tasks' = tasks (-) One(Session)
                    /\ last' = RequestEvent(request, 200, "threw")
                    /\ UNCHANGED <<config, refreshInterval, timers, pending>>
               ELSE /\ tasks' = (tasks (-) One(Session))
                                  (+) One(Task("exchange", "pairing", 0))
                    /\ Set([World EXCEPT !.pending = @ (+) One(Cont("auth", "none"))])
                    /\ last' = RequestEvent(request, 200, "resumed")
    /\ UNCHANGED <<database, now, stopped, degraded>>
    /\ UNCHANGED <<account, devices, moduleMapping, updateInterval, intervals, pairings>>

----------------------------------------------------------------------------

Next ==
  \/ Tick
  \/ TimerFires
  \/ RefreshResponse
  \/ RefreshSaved
  \/ \E op \in CloudOps : Invoke(op)
  \/ \E op \in CloudOps : Response(op)
  \/ AuthBegin
  \/ Callback
  \/ AuthResponse
  \/ AuthSaved

Spec == Init /\ [][Next]_vars

\* Startup and pairing with a database whose writes may fail: the refresh
\* started by the constructor and the authorization flows, while the clock
\* stands still and no cloud operation is called.
NextUnsaved ==
  \/ RefreshResponseUnsaved
  \/ RefreshSaved
  \/ AuthBegin
  \/ Callback
  \/ AuthResponseUnsaved
  \/ AuthSaved

SpecUnsaved == Init /\ [][NextUnsaved]_vars

\* The adapter: discovery at startup and by pairing, and polling. The cloud
\* client stays as it is constructed; each call the adapter awaits ends in any
\* of the ways the client can end it.
AdapterConfigs == {c \in LoadedConfigs : c.token = Empty /\ c.expires = Msec}

InitAdapter ==
  \E c \in AdapterConfigs, a \in Accounts :
    /\ NetatmoInit(c)
    /\ AdapterInit(c, a)

NextAdapter ==
  \/ StartPairing
  \/ Authenticated
  \/ Discovered
  \/ IntervalFires
  \/ HomesListed
  \/ HomePolled

SpecAdapter == InitAdapter /\ [][NextAdapter]_vars

\* Teardown: the refresh scheduler from startup on, with unInit() called at
\* any moment; no cloud operation is called and no authorization is started.
NextTeardown ==
  \/ Tick
  \/ TimerFires
  \/ RefreshResponse
  \/ RefreshSaved
  \/ UnInit

SpecTeardown == Init /\ [][NextTeardown]_vars

\* Startup with a stored refresh token and no valid access token: the
\* constructor has started a refresh and cleared the access token, and init()
\* has called postAuth(), whose getHomeData() has thrown for want of a token.
\* The user does nothing. Every handler that can run does run.
StartupConfigs ==
  {c \in LoadedConfigs : c.refresh_token # Empty /\ ~ArmsTimer(c, Msec)}

InitStartup ==
  \E c \in StartupConfigs, a \in Accounts :
    /\ NetatmoInit(c)
    /\ AdapterInit(c, a)

NextStartup ==
  \/ Tick
  \/ TimerFires
  \/ RefreshResponse
  \/ RefreshSaved
  \/ DiscoveredWithoutToken

SpecStartup == InitStartup /\ [][NextStartup]_vars /\ WF_vars(NextStartup)

\* The readings of a valve, polled once.

\* the account with one home, one room and one valve is discovered, and a
\* poll of the home awaits a status that reports any battery level and signal
\* strength of the valve
InitReadings ==
  \E c \in AdapterConfigs, b \in Millivolts, rf \in Strengths :
    /\ ~NeedsAuthOf(c)
    /\ NetatmoInit(c)
    /\ account = 1
    /\ devices = CreateDevices(NoDevices, Homes(1))
    /\ moduleMapping = CreateMapping(NoMapping, NoDevices, Homes(1))
    /\ updateInterval = 1
    /\ intervals = 1
    /\ pairings = 0
    /\ tasks = One(StatusTask(1, [battery_level |-> b, rf_strength |-> rf]))

NextReadings == StatusArrives

SpecReadings == InitReadings /\ [][NextReadings]_vars

\* Commands on the mode property, and the answers to them.
NextCommands ==
  \/ SetThermostatMode
  \/ \E op \in CloudOps : Response(op)
  \/ RefreshResponse
  \/ RefreshSaved

SpecCommands == Init /\ [][NextCommands]_vars

\* The callback receiver: pairings that need authorization and the requests
\* to the handler, up to the code exchange.
NextCallback ==
  \/ PairingBegin
  \/ HandleRequest

SpecCallback == InitAdapter /\ [][NextCallback]_vars

----------------------------------------------------------------------------
(* Properties *)

\* the refresh-token grants that are awaiting their answer
RefreshRequests == CopiesIn(Cont("refresh", "none"), pending)

\* the last step ran initRefresh() at the end of a refresh or an authorization
Rearmed(e) == e.op \in {"refresh_done", "auth_done"} /\ e.result = "ok"

\* C1: the adapter reports itself authorized (needsAuth is false) iff the stored
\* refresh token is non-empty, whatever the access token is: putting any access
\* token, or none, in the store does not change the answer.
C1_AuthorizedIffRefreshToken ==
  /\ (~NeedsAuth) <=> (config.refresh_token # Empty)
  /\ \A t \in {Empty} \cup AccessTokens :
       NeedsAuthOf([config EXCEPT !.token = t]) = NeedsAuth

\* C1 witness: a 403 has cleared the access token and the adapter is still
\* authorized.
C1_Witness ==
  /\ last.op = "response" /\ last.status = 403
  /\ config.token = Empty
  /\ ~NeedsAuth

\* C2: when a refresh that was answered 200 completes (and the expiry it stored
\* is still ahead), the store holds an access token and a refresh token, the
\* adapter is authorized, and a timer is armed for the stored expiry.
C2_RefreshSuccessOnCompletion ==
  (last.op = "refresh_done" /\ last.result = "ok" /\ config.expires > now) =>
    /\ config.token \in AccessTokens
    /\ config.refresh_token \in RefreshTokens
    /\ ~NeedsAuth
    /\ refreshInterval = config.expires
    /\ BagIn(config.expires, timers)

C4_NoRetryAfterFailure ==
  degraded =>
    /\ timers = EmptyBag
    /\ ~(last.arm = "refresh" /\ config.refresh_token # Empty)

\* C5: initRefresh() arms a one-shot timer for expires - now exactly when that
\* delay is positive and an access token is present, and then sends nothing;
\* in every other case it arms no timer and runs refresh() at once. This is
\* so where a refresh or an authorization completes and, in the initial
\* states, where the constructor has run it.
C5_ArmsTimerOrRefreshes ==
  /\ (last.op = "constructor" /\ last.arm = "timer") =>
       /\ config.token # Empty /\ config.expires - now > 0
       /\ timers = One(now + (config.expires - now))
       /\ refreshInterval = now + (config.expires - now)
       /\ RefreshRequests = 0
  /\ (last.op = "constructor" /\ last.arm = "refresh") =>
       /\ config.token = Empty
       /\ timers = EmptyBag /\ refreshInterval = NoTimer
       /\ RefreshRequests = 1
  /\ [][Rearmed(last') =>
       IF config.expires # 0 /\ config.expires - now > 0 /\ config.token # Empty
       THEN /\ timers' = timers (+) One(now + (config.expires - now))
            /\ refreshInterval' = now + (config.expires - now)
            /\ RefreshRequests' = RefreshRequests
            /\ config' = config
            /\ last'.arm = "timer"
       ELSE /\ timers' = timers
            /\ refreshInterval' = NoTimer
            /\ config'.token = Empty
            /\ RefreshRequests' =
                 RefreshRequests + (IF config.refresh_token # Empty THEN 1 ELSE 0)
            /\ last'.arm = "refresh"]_vars

\* C5 witness: a refresh has completed and armed a timer for the stored expiry.
C5_Witness ==
  /\ last.op = "refresh_done" /\ last.arm = "timer"
  /\ refreshInterval = config.expires
  /\ BagIn(config.expires, timers)

\* C6: at most one refresh timer is pending.
C6_AtMostOneTimer == BagCardinality(timers) <= 1

\* C7: each of the four cloud operations, called while the access token is
\* empty, throws and sends no request (and changes nothing in the store).
C7_NoTokenNoRequest ==
  [][(last'.op = "invoke" /\ config.token = Empty) =>
       /\ last'.call \in CloudOps
       /\ last'.result = "threw"
       /\ pending' = pending
       /\ config' = config]_vars

\* C7 witness: setThermostatMode was called with no access token and threw.
C7_Witness ==
  /\ last.op = "invoke" /\ last.call = "setThermostatMode"
  /\ last.result = "threw"
  /\ config.token = Empty

\* C8: when a cloud operation is answered 403, the access token is cleared, the
\* operation throws, and the refresh token is what it was before the answer.
C8_ForbiddenClearsAccessToken ==
  [][(last'.op = "response" /\ last'.status = 403) =>
       /\ last'.call \in CloudOps
       /\ config'.token = Empty
       /\ last'.result = "threw"
       /\ config'.refresh_token = config.refresh_token]_vars

\* C8 witness: a 403 was handled and the refresh token is still there.
C8_Witness ==
  /\ last.op = "response" /\ last.status = 403 /\ last.result = "threw"
  /\ config.token = Empty
  /\ config.refresh_token # Empty

\* C9: when a cloud operation is answered a non-2xx status other than 403, the
\* operation throws and the token state is unchanged.
C9_RemoteErrorThrows ==
  [][(last'.op = "response" /\ ~ResponseOk(last'.status) /\ last'.status # 403) =>
       /\ last'.result = "threw"
       /\ config' = config]_vars

\* C10: a resume whose payload has no state, another state than the nonce, or
\* no code, and a code exchange answered anything but 200, throw and leave the
\* store, the persisted config and the timers as they were, and send nothing.
C10_FailedResumeChangesNothing ==
  [][(\/ last'.op = "callback" /\ \/ last'.data.state = Empty
                                  \/ last'.data.state # listener.nonce
                                  \/ last'.data.code = Empty
      \/ last'.op = "auth_response" /\ last'.status # 200) =>
       /\ last'.result = "threw"
       /\ config' = config
       /\ database' = database
       /\ timers' = timers
       /\ refreshInterval' = refreshInterval
       /\ BagCardinality(pending') <= BagCardinality(pending)
       /\ RefreshRequests' = RefreshRequests]_vars

\* C10 witness: a callback carrying a code and a state that is not the nonce
\* was rejected.
C10_Witness ==
  /\ last.op = "callback" /\ last.result = "threw"
  /\ last.data.state # Empty
  /\ last.data.code # Empty

AuthRequests == CopiesIn(Cont("auth", "none"), pending)

C12_TokenHasFutureExpiry ==
  /\ [](config.token # Empty => config.expires # 0)
  /\ [][(\/ config' # config /\ config'.token # Empty
         \/ last'.op \in {"refresh_response", "auth_response"} /\ last'.result = "ok") =>
          /\ config'.token \in AccessTokens
          /\ config'.expires > now']_vars

\* C12 witness: a refresh has just stored an access token with an expiry ahead
\* of a clock that has advanced since the start.
C12_Witness ==
  /\ last.op = "refresh_response" /\ last.result = "ok"
  /\ config.token # Empty
  /\ now > Msec
  /\ config.expires > now

\* the access token in the persisted config, if there is one
StoredToken(db) == IF "token" \in DOMAIN db THEN db.token ELSE Empty

AwaitingSave(pc) == CopiesIn(Cont(pc, "none"), pending)

\* C14: a write to the database that fails is logged and not propagated: the
\* step of a refresh or an authorization that handles a 200 answer and whose
\* write fails leaves the database as it was, keeps the new access token,
\* expiry and refresh token in memory, and the refresh or authorization goes
\* on from its await; and every step that completes a successful refresh or
\* an authorization runs the refresh scheduler: it arms a timer for the stored
\* expiry, or refreshes at once.
C14_SaveFailureNotPropagated ==
  [][/\ (last'.op \in {"refresh_response", "auth_response"}
           /\ last'.result = "ok" /\ last'.saved = "failed") =>
          /\ database' = database
          /\ config'.token \in AccessTokens
          /\ config'.refresh_token \in RefreshTokens
          /\ config'.expires > now
          /\ ~NeedsAuth'
          /\ IF last'.op = "refresh_response"
             THEN AwaitingSave("refresh_ok")' = AwaitingSave("refresh_ok") + 1
             ELSE AwaitingSave("auth_ok")' = AwaitingSave("auth_ok") + 1
     /\ Rearmed(last') =>
          /\ AwaitingSave("refresh_ok")' + AwaitingSave("auth_ok")'
               = AwaitingSave("refresh_ok") + AwaitingSave("auth_ok") - 1
          /\ IF config.token # Empty /\ config.expires > now
             THEN /\ timers' = timers (+) One(config.expires)
                  /\ config' = config
             ELSE /\ refreshInterval' = NoTimer
                  /\ config' = [config EXCEPT !.token = Empty]]_vars

\* C14 witness: a refresh whose write failed has completed: the database holds
\* the old refresh token, the store the rotated one with the new access
\* token, and a timer is armed for the new expiry.
C14_Witness ==
  /\ last.op = "refresh_done" /\ last.arm = "timer"
  /\ config.token \in AccessTokens
  /\ config.refresh_token = 2
  /\ database.refresh_token = 1
  /\ BagIn(config.expires, timers)

\* C15: a room key that has a device keeps that very device: no step replaces
\* or removes the device bound to a room key.
C15_DeviceCreatedOnce ==
  [][\A id \in DOMAIN devices :
       /\ id \in DOMAIN devices'
       /\ devices'[id].serial = devices[id].serial]_vars

\* the modules of a home that are valves of the room
ValvesOf(home, room) == {m \in home.modules : m.type = "NRV" /\ m.room_id = room}

\* C16: once a discovery has listed the homes, every room of the account has a
\* device whose properties are the four base properties and a battery and a
\* signal property for each valve of the room, and no other; the devices are
\* those of the rooms; moduleMapping holds exactly the valves whose room has a
\* device, each with its room. One home with one room and one valve gives one
\* device with six properties.
C16_DiscoveredProperties ==
  (DOMAIN devices # {}) =>
    /\ DOMAIN devices = RoomIds(Homes(account))
    /\ \A h \in Homes(account) : \A r \in h.rooms :
         DOMAIN devices[DeviceId(h.id, r)].properties =
           BaseProperties \cup UNION {ModuleProperties(m.id) : m \in ValvesOf(h, r)}
    /\ DOMAIN moduleMapping =
         UNION {{m.id : m \in UNION {ValvesOf(h, r) : r \in h.rooms}} :
                  h \in Homes(account)}
    /\ \A h \in Homes(account) : \A m \in h.modules :
         m.id \in DOMAIN moduleMapping => moduleMapping[m.id] = m.room_id
    /\ (account = 1) =>
         /\ Cardinality(DOMAIN devices) = 1
         /\ Cardinality(DOMAIN devices[DeviceId(1, 1)].properties) = 6

\* C16 witness: the discovery of the account with one home, one room and one
\* valve has made one device with six properties and one entry in moduleMapping.
C16_Witness ==
  /\ account = 1
  /\ last.op = "createDevices" /\ last.result = "data"
  /\ Cardinality(DOMAIN devices) = 1
  /\ Cardinality(DOMAIN devices[DeviceId(1, 1)].properties) = 6
  /\ DOMAIN moduleMapping = {1}


\* C17: after a poll of a home that ran to its end, every room of the status
\* snapshot has, in its device, the temperature, the target temperature and
\* the heating state the snapshot reports, and a mode that the poll has set.
C17_PollUpdatesFourProperties ==
  (last.op = "getHomeStatus" /\ last.result = "updated") =>
    \A r \in DOMAIN last.snapshot.rooms :
      LET properties == devices[DeviceId(last.home, r)].properties
          room == last.snapshot.rooms[r]
      IN  /\ properties[PropertyName(0, "temperature")] = room.therm_measured_temperature
          /\ properties[PropertyName(0, "targetTemperature")]
               = room.therm_setpoint_temperature
          /\ properties[PropertyName(0, "heating")]
               = (IF room.heating_power_request > 0 THEN Heating ELSE Off)
          /\ properties[PropertyName(0, "mode")] # Undefined


\* the polls of homes other than this one that await their status
OtherPolls(ts, home) == {t \in BagToSet(ts) : t.pc = "getHomeStatus" /\ t.home # home}

\* C18: a poll of one home that fails (its status fetch throws or returns no
\* snapshot, or the walk over its snapshot throws) leaves the polls of the
\* other homes suspended as they were and the devices of the other homes
\* untouched; and a poll whose fetch brought a snapshot, of a home whose rooms
\* all have devices, sets temperature, target temperature and heating state of
\* every room to the snapshot's values, whatever became of the other polls.
C18_PollFailureIsolated ==
  [][(last'.op = "getHomeStatus") =>
       /\ \A t \in OtherPolls(tasks, last'.home) :
            CopiesIn(t, tasks') = CopiesIn(t, tasks)
       /\ \A id \in DOMAIN devices :
            id[1] # last'.home => (id \in DOMAIN devices' /\ devices'[id] = devices[id])
       /\ (last'.result = "threw" /\ last'.snapshot = NoSnapshot) => devices' = devices
       /\ (/\ last'.snapshot # NoSnapshot
           /\ \A r \in DOMAIN last'.snapshot.rooms :
                DeviceId(last'.home, r) \in DOMAIN devices) =>
            \A r \in DOMAIN last'.snapshot.rooms :
              LET properties == devices'[DeviceId(last'.home, r)].properties
                  room == last'.snapshot.rooms[r]
              IN  /\ properties[PropertyName(0, "temperature")]
                       = room.therm_measured_temperature
                  /\ properties[PropertyName(0, "targetTemperature")]
                       = room.therm_setpoint_temperature
                  /\ properties[PropertyName(0, "heating")]
                       = (IF room.heating_power_request > 0 THEN Heating ELSE Off)]_vars

\* C18 witness: of two homes discovered at startup and never again, the status
\* fetch of home 2 has failed every time, its device has no temperature, and
\* none of its polls is suspended; the poll of home 1 has then updated the
\* device of home 1.
C18_Witness ==
  /\ account = 2 /\ pairings = 0
  /\ last.op = "getHomeStatus" /\ last.result = "updated" /\ last.home = 1
  /\ devices[DeviceId(1, 1)].properties[PropertyName(0, "temperature")]
       = last.snapshot.rooms[1].therm_measured_temperature
  /\ DeviceId(2, 1) \in DOMAIN devices
  /\ devices[DeviceId(2, 1)].properties[PropertyName(0, "temperature")] = Undefined
  /\ OtherPolls(tasks, 1) = {}


\* C19: at most one poll interval runs, in every state, however often
\* postAuth() runs.
C19_OneUpdateInterval ==
  /\ intervals <= 1
  /\ (intervals = 1) <=> (updateInterval # NoTimer)

\* C19 witness: postAuth() has run a second time, called by authenticate()
\* after the run at startup had started the interval and while the poll of
\* that run is still suspended: there is one interval.
C19_Witness ==
  /\ last.op = "createDevices" /\ last.call = "authenticate" /\ last.result = "data"
  /\ pairings = 1
  /\ \E id \in DOMAIN devices : devices[id].serial = 2
  /\ intervals = 1


\* C20: in a poll, a property whose cached value equals the value supplied
\* keeps it and no notification is sent for it; a property whose cached value
\* differs takes the value supplied and one notification is sent for it. So
\* the notifications of a poll are one for each property whose value the poll
\* has changed, and none else.
C20_UpdatePropertyNotifiesChange ==
  [][(last'.op = "getHomeStatus") =>
       /\ DOMAIN devices' = DOMAIN devices
       /\ \A id \in DOMAIN devices : \A name \in DOMAIN devices[id].properties :
            CopiesIn(Notification(id, name), last'.changed) =
              (IF devices'[id].properties[name] # devices[id].properties[name]
               THEN 1 ELSE 0)
       /\ \A n \in BagToSet(last'.changed) :
            n[1] \in DOMAIN devices /\ n[2] \in DOMAIN devices[n[1]].properties
       /\ \A r \in DOMAIN last'.snapshot.rooms :
            LET id == DeviceId(last'.home, r)
                name == PropertyName(0, "temperature")
                value == last'.snapshot.rooms[r].therm_measured_temperature
            IN  (\A x \in DOMAIN last'.snapshot.rooms :
                   DeviceId(last'.home, x) \in DOMAIN devices) =>
                  /\ devices'[id].properties[name] = value
                  /\ CopiesIn(Notification(id, name), last'.changed) =
                       (IF devices[id].properties[name] = value THEN 0 ELSE 1)]_vars

\* C20 witness: a poll has supplied a new temperature and the target
\* temperature the device had: one notification for the temperature, none for
\* the target temperature.
C20_Witness ==
  /\ last.op = "getHomeStatus" /\ last.result = "updated"
  /\ LET id == DeviceId(last.home, 1) IN
     /\ CopiesIn(Notification(id, PropertyName(0, "temperature")), last.changed) = 1
     /\ CopiesIn(Notification(id, PropertyName(0, "targetTemperature")), last.changed) = 0
     /\ devices[id].properties[PropertyName(0, "targetTemperature")]
          = last.snapshot.rooms[1].therm_setpoint_temperature


\* the polls that postAuth() has started and that await getHomeData()
PollsStarted(ts) == CopiesIn(Task("updateHomeData", "postAuth", 0), ts)

\* C21: a discovery whose call to list the homes has failed (it threw, or the
\* answer was not 200 and nothing was listed) is reported with reportError and
\* ends there: it leaves the devices as they are, starts no poll and starts
\* no interval.
C21_DiscoveryFailureReported ==
  [][(last'.op = "createDevices" /\ last'.result # "data") =>
       /\ last'.reported
       /\ devices' = devices
       /\ PollsStarted(tasks') = PollsStarted(tasks)
       /\ intervals' = intervals]_vars


\* C22: a request that is not POST /callback is answered 404 and changes
\* nothing; POST /callback is answered 200 and, when sessions await a
\* callback, resumes exactly one of them.
C22_CallbackDeliveredToOneSession ==
  [][(last'.op = "request") =>
       /\ last'.status =
            (IF last'.request.method = "POST" /\ last'.request.path = "/callback"
             THEN 200 ELSE 404)
       /\ (last'.status = 404) =>
            (tasks' = tasks /\ listener' = listener /\ pending' = pending)
       /\ (last'.status = 200) =>
            SessionsAwaiting(tasks) - SessionsAwaiting(tasks')
              = (IF SessionsAwaiting(tasks) > 0 THEN 1 ELSE 0)]_vars

\* C23: at most one session awaits a callback, in every state.
C23_OneSessionAwaiting == SessionsAwaiting(tasks) <= 1


\* C24: once unInit() has been called, no refresh timer is pending and no
\* refresh request is sent any more.
C24_TeardownCancelsRefresh ==
  /\ [](stopped => timers = EmptyBag)
  /\ [][stopped => RefreshRequests' <= RefreshRequests]_vars


\* C25: a poll is not made to fail by a refresh that fires while it runs: when
\* getHomeData() has returned the homes while a refresh awaits its answer, the
\* calls of getHomeStatus() that updateHomeData() makes next find an access
\* token and send their request.
C25_RefreshDuringPollIsSafe ==
  [][(/\ last.op = "response" /\ last.call = "getHomeData" /\ last.result = "data"
      /\ RefreshRequests > 0
      /\ last'.op = "invoke" /\ last'.call = "getHomeStatus") =>
       last'.result # "threw"]_vars


\* C26: a mode command that is sent carries the mode 'away' if the value set
\* is 'off' and 'schedule' for every other value, and the id of the home of
\* the device the value was set on.
C26_ModeSentForValue ==
  (last.op = "invoke" /\ last.call = "setThermostatMode" /\ last.result # "threw") =>
    /\ (last.sent.mode = "away") <=> (last.command.value = "off")
    /\ (last.sent.mode = "schedule") <=> (last.command.value # "off")
    /\ last.sent.home_id = last.command.home

\* C26 witness: 'off' was set on the device of room 20 of home 5a, and 'away'
\* was sent for home 5a.
C26_Witness ==
  /\ last.op = "invoke" /\ last.call = "setThermostatMode"
  /\ last.command = [home |-> <<"5a">>, room |-> <<"20">>, value |-> "off"]
  /\ last.sent = [home_id |-> <<"5a">>, mode |-> "away"]
  /\ CopiesIn(Cont("call", "setThermostatMode"), pending) > 0


\* the valve polled, its room's device, and what the poll has read and stored
ValvePolled == last.op = "getHomeStatus" /\ last.result = "updated" /\ account = 1
SignalRead == last.snapshot.modules[1].rf_strength
SignalStored == devices[DeviceId(1, 1)].properties[PropertyName(1, "signal")]
BatteryRead == last.snapshot.modules[1].battery_level
BatteryStored == devices[DeviceId(1, 1)].properties[PropertyName(1, "battery")]

\* C27: the signal percentage of a strength s is ((90 - s) / 30) * 90 + 10,
\* held within 0 and 100 (here all multiplied by 30): it lies in 0..100, is 10
\* at s = 90 and 0 at s = 100, is 100 from 60 down and 0 from 94 up.
C27_SignalPercent ==
  ValvePolled =>
    LET s == SignalRead
        p == SignalStored
        linear30 == (90 - s) * 90 + 10 * 30
    IN  /\ p \in 0..100
        /\ 30 * p = (IF linear30 < 0 THEN 0
                     ELSE IF linear30 > 100 * 30 THEN 100 * 30 ELSE linear30)
        /\ (s = 90) => (p = 10)
        /\ (s = 100) => (p = 0)
        /\ (s <= 60) => (p = 100)
        /\ (s >= 94) => (p = 0)

\* C27 witness: strength 90 was read and 10 stored
C27_Witness == ValvePolled /\ SignalRead = 90 /\ SignalStored = 10

\* C28: the battery percentage of a level v is an integer in 0..100; it is 100
\* from 3200 up, 0 below 2200, 50 at 2400, and between two breakpoints the
\* percentage of the lower one plus the floor of the linear share of the way
\* to the upper one (between 50 and 80 at 2550); no lower level has a greater
\* percentage.
C28_BatteryPercent ==
  ValvePolled =>
    LET v == BatteryRead
        p == BatteryStored
    IN  /\ p \in 0..100
        /\ (v >= 3200) => (p = 100)
        /\ (v < 2200) => (p = 0)
        /\ (v = 2400) => (p = 50)
        /\ (v = 2550) => (p > 50 /\ p < 80)
        /\ (v >= 2200 /\ v < 2400) => (p = 20 + (30 * (v - 2200)) \div 200)
        /\ (v >= 2400 /\ v < 2700) => (p = 50 + (30 * (v - 2400)) \div 300)
        /\ (v >= 2700 /\ v < 3200) => (p = 80 + (20 * (v - 2700)) \div 500)
        /\ \A w \in Millivolts : (w <= v) => (interpolateBattery(w) <= p)

\* C28 witness: 2550 mV was read and 65 stored
C28_Witness == ValvePolled /\ BatteryRead = 2550 /\ BatteryStored = 65


\* C29: at most one refresh request awaits its answer, in every state.
C29_OneRefreshInFlight == RefreshRequests <= 1


\* C30: when the refresh started at startup is answered 200, devices are
\* discovered and the poll interval is started, at some later moment.
C30_StartupLeadsToPolling ==
  (last.op = "refresh_response" /\ last.result = "ok")
    ~> (DOMAIN devices # {} /\ intervals > 0)


\* C31: a poll of one home whose fetch brought a snapshot runs to its end
\* without an exception, whatever devices exist: a room of the snapshot
\* without a device and a valve without a room in moduleMapping are passed
\* over, every room that has a device takes the snapshot's temperature, target
\* temperature and heating state, and every valve whose room is recorded and
\* has a device takes the snapshot's battery and signal percent.
C31_PollSkipsUnknownDevices ==
  [][(last'.op = "getHomeStatus" /\ last'.snapshot # NoSnapshot) =>
       LET home == CHOOSE h \in Homes(account) : h.id = last'.home IN
       /\ last'.result = "updated"
       /\ DOMAIN devices' = DOMAIN devices
       /\ \A r \in DOMAIN last'.snapshot.rooms :
            DeviceId(home.id, r) \in DOMAIN devices =>
              LET properties == devices'[DeviceId(home.id, r)].properties
                  room == last'.snapshot.rooms[r]
              IN  /\ properties[PropertyName(0, "temperature")]
                       = room.therm_measured_temperature
                  /\ properties[PropertyName(0, "targetTemperature")]
                       = room.therm_setpoint_temperature
                  /\ properties[PropertyName(0, "heating")]
                       = (IF room.heating_power_request > 0 THEN Heating ELSE Off)
       /\ \A m \in home.modules :
            (/\ Includes(m)
             /\ m.id \in DOMAIN moduleMapping
             /\ DeviceId(home.id, moduleMapping[m.id]) \in DOMAIN devices) =>
              LET properties == devices'[DeviceId(home.id, moduleMapping[m.id])].properties
                  reading == last'.snapshot.modules[m.id]
              IN  /\ properties[PropertyName(m.id, "battery")]
                       = interpolateBattery(reading.battery_level)
                  /\ properties[PropertyName(m.id, "signal")]
                       = mapRfToPercent(reading.rf_strength)]_vars

====
